---- MODULE Spec2Model ----
(***************************************************************************)
(* The embuer update service: the request loop of src/service.rs with the  *)
(* install pipeline, the confirmation channel, the progress reporting of   *)
(* src/progress_stream.rs and the deployment garbage collection, together  *)
(* with the bus clients of src/dbus.rs that enqueue requests and confirm   *)
(* or reject pending updates.                                              *)
(*                                                                         *)
(* Option<T> is a sequence of length 0 (None) or 1 (Some(v)).  The tar     *)
(* archive, the payload bytes and the results of the btrfs tool are read   *)
(* from the environment at the step that reads them; an archive is any     *)
(* sequence of entries.  `faulty` tells whether the environment may fail   *)
(* (I/O errors, tool failures, damaged archives, bad signatures).          *)
(***************************************************************************)
EXTENDS Bags, FiniteSets, Integers, Sequences, TLC

(* ------------------------------ bounds -------------------------------- *)

\* requests sent into the request channel during one run of the service
MaxRequests == 2
\* subvolumes btrfs receive creates during one run of the service
MaxReceived == 1
\* size of an update.btrfs.xz entry, in read chunks
MaxChunks == 1
\* status-update tasks spawned by ProgressReader and not yet run
MaxTasks == 1
\* update_status_changed calls the monitor makes during one run
MaxSignals == 3
\* length of a byte stream read through HashingReader
MaxStream == 2
\* remaining capacity of the ReadBuf a poll_read call is given
MaxCapacity == 2
\* finalizations of the hasher during the life of one HashingReader
MaxFinalize == 3
\* key_size: bytes of the RSA modulus (256 and more in a deployment)
KeySize == 7
\* bytes of the DigestInfo sequence that are modelled (19 in the code)
DigestInfoLen == 1
\* bytes of a digest (64 for SHA-512)
HashLen == 1
\* 0xFF bytes PKCS#1 v1.5 asks for at least (8)
MinPadding == 1
\* calls of subvolume_set_rw and subvolume_set_ro made in succession
MaxCalls == 3
\* header.entry_size() of an update.btrfs.xz read through a ProgressReader,
\* in chunks
MaxTotal == 4
\* status-update tasks of one ProgressReader that have not run yet
MaxSpawned == 3
(* -------------------------- program constants ------------------------- *)

\* mpsc::channel::<UpdateRequest>(10)
RequestCapacity == 10
\* mpsc::channel::<bool>(1)
ConfirmationCapacity == 1

(* ------------------------------- inputs ------------------------------- *)

Sources ==
    { [kind |-> "Url",  desc |-> "http://host/u.tar"],
      [kind |-> "File", desc |-> "/tmp/u.tar"] }

Clients == {"c1", "c2"}

\* byte values, and the byte streams a HashingReader is given
ByteValues == {0, 1}
Streams == UNION {[1..n -> ByteValues] : n \in 0..MaxStream}

\* SHA-512 DigestInfo: 30 51 30 0d 06 09 60 86 48 01 65 03 04 02 03 05 00 04
\* 40, of which the first DigestInfoLen bytes are modelled
sha512_digest_info ==
    SubSeq(<<48, 81, 48, 13, 6, 9, 96, 134, 72, 1, 101, 3, 4, 2, 3, 5, 0, 4,
             64>>, 1, DigestInfoLen)
\* the byte values a decrypted block is made of: 0x00, 0x01, 0xFF and the
\* bytes of the DigestInfo
BlockBytes ==
    {0, 1, 255} \cup {sha512_digest_info[i] : i \in 1..DigestInfoLen}
\* BigUint::to_bytes_be of s^e mod n: at most key_size bytes, no leading
\* zero byte, and one zero byte for the value 0
ModpowValues ==
    {<<0>>} \cup
    {b \in UNION {[1..n -> BlockBytes] : n \in 1..KeySize} : b[1] # 0}
\* the digests verify_signature is called with
HashInputs == {[i \in 1..HashLen |-> 0], [i \in 1..HashLen |-> 255]}

\* ids of the deployments present when the service starts
InitialDeployments == {1, 2, 3}

\* what receive_btrfs_stream spawns: the copier into xz, the xz process, the
\* copier from xz into btrfs receive, the btrfs receive process, the reader of
\* its stderr, and the task that joins the last three
Stages ==
    {"input_to_xz", "xz_proc", "pipe_task", "btrfs_proc", "stderr_task",
     "btrfs_task"}
Processes == {"xz_proc", "btrfs_proc"}

\* how the btrfs tool behaves on a system: `property set` takes effect, exits
\* non-zero, or exits zero and leaves the property as it was; `property get`
\* exits non-zero
BtrfsEnvs == {"works", "set fails", "set ignored", "get fails"}
\* the id the filesystem gives to the first subvolume created afterwards
FirstFreshId == Cardinality(InitialDeployments) + 1

Changelogs == {"Version 1.2.3"}

\* contents of an update.btrfs.xz entry
Payloads == {"A", "B"}

None == <<>>
Some(v) == <<v>>
IsSome(o) == o # <<>>
Unwrap(o) == o[1]

(* ------------------------------ UpdateStatus -------------------------- *)

St(kind, source, info, progress) ==
    [kind |-> kind, source |-> source, info |-> info, progress |-> progress]

Idle == St("Idle", "", "", -1)
Checking == St("Checking", "", "", -1)
Clearing == St("Clearing", "", "", -1)
Installing(source, progress) == St("Installing", source, "", progress)
AwaitingConfirmation(version, source) == St("AwaitingConfirmation", source, version, -1)
Completed(source, deployment) == St("Completed", source, deployment, -1)
Failed(source, error) == St("Failed", source, error, -1)

\* UpdateStatus::as_str
as_str(status) == status.kind

\* UpdateStatus::details
details(status) ==
    CASE status.kind = "Installing" -> status.source
      [] status.kind = "AwaitingConfirmation" ->
            status.info \o " (" \o status.source \o ")"
      [] status.kind = "Completed" ->
            status.source \o " installed as " \o status.info
      [] status.kind = "Failed" -> status.source \o ": " \o status.info
      [] OTHER -> ""

\* UpdateStatus::progress
progress(status) ==
    IF status.kind = "Installing" THEN status.progress ELSE -1

\* values the status slot can hold; two of them differ and have the same
\* as_str, details and progress
StatusValues ==
    {Idle, Checking, Installing("s", 0), Installing("s", 50),
     Completed("s", "deployment-4"),
     Failed("s", "x: y"), Failed("s: x", "y")}

(* ------------------------------ pure code ----------------------------- *)

\* extract_version_from_changelog, on the changelogs of Changelogs
extract_version_from_changelog(changelog) ==
    IF changelog = "Version 1.2.3" THEN "1.2.3" ELSE "unknown"

PendingUpdate(version, changelog, source) ==
    [version |-> version, changelog |-> changelog, source |-> source]

\* the digest HashingReader publishes: of the whole payload at EOF, of a
\* proper prefix when the source failed before EOF
Sha512(payload, complete) == [of |-> payload, complete |-> complete]

\* a signature made over the SHA-512 of a whole payload, or a block that is
\* not a PKCS#1 v1.5 signature of anything
SignatureOver(payload) == [wellformed |-> TRUE, over |-> payload]
MalformedSignature == [wellformed |-> FALSE, over |-> "A"]
\* the contents of update.signature: up to the names of the payloads, a
\* signature is malformed, matches the payload or is over another payload
Signatures == {SignatureOver("A"), MalformedSignature}

\* a verification that accepts every well-formed signature block
VerifyIgnoringDigest(signature, hash) == signature.wellformed

\* ServiceInner::verify_signature: the block has the PKCS#1 v1.5 layout and
\* the digest it carries is the digest computed from the stream
verify_signature(signature, hash) ==
    /\ signature.wellformed
    /\ hash = Sha512(signature.over, TRUE)

\* ProgressReader::calculate_progress
calculate_progress(bytes_read, total_size) ==
    IF total_size > 0 THEN (bytes_read * 100) \div total_size ELSE -1

\* the name of the subvolume with this id under deployments_dir
NameOf(id) == "deployment-" \o ToString(id)

(* ------------------------------- state -------------------------------- *)

VARIABLES
    faulty,                 \* whether the environment may fail
    auto_install_updates,   \* Config::auto_install_updates
    boot_id, boot_name,     \* ServiceInner: the boot record
    update_status,          \* ServiceInner::update_status
    pending_update,         \* ServiceInner::pending_update
    confirmation_ch,        \* the confirmation channel (confirmation_tx/rx)
    update_ch,              \* the request channel (update_tx/update_rx)
    sent,                   \* requests sent so far
    pc,                     \* position of the request loop
    request,                \* the request the loop is processing, with the
                            \* default subvolume id at its receive (history)
    processed,              \* requests the loop has finished
    changelog_content,      \* update_request_loop: changelog_content
    signature_content,      \* update_request_loop: signature_content
    inst,                   \* locals of process_update_entry / install_update
    tasks,                  \* spawned status-update tasks not yet run
    deployments,            \* ids of the subvolumes under deployments_dir
    default_id,             \* the filesystem's default subvolume
    next_id,                \* next subvolume id the filesystem assigns
    delete_calls,           \* ids subvolume_delete was called on
    clients,                \* position of each bus client in confirm_update
    confirm_result,         \* what the last confirm_update to return returned
    last_status,            \* start_status_monitor: last_status
    last_progress,          \* start_status_monitor: last_progress
    signals,                \* the update_status_changed calls made so far
    senders,                \* live Sender handles of the request channel
    term_pc,                \* position of terminate_update_check
    poller_pc,              \* position of periodic_url_checker ("none": no
                            \* update_url is configured)
    update_done,            \* periodic_url_checker: update_done
    stream,                 \* the bytes of the source HashingReader wraps
    inner,                  \* HashingReader.inner: the bytes not read yet
    delivered,              \* the bytes put into the downstream's buffers
    hasher,                 \* HashingReader.hasher: the bytes it has absorbed
    hash_result,            \* HashingReader.hash_result: the shared slot
    lock_held,              \* an observer holds a read guard of the slot
    finalized,              \* finalizations of the hasher so far
    eof_seen,               \* inner has returned EOF
    error_seen,             \* inner has returned an error
    signature_len,          \* verify_signature: signature_bytes.len()
    modpow_bytes,           \* verify_signature: padded.to_bytes_be()
    hash_bytes,             \* verify_signature: hash_bytes
    verify_result,          \* what verify_signature returned ("": not called)
    subvol_ro,              \* the read-only property of a subvolume
    is_subvolume,           \* what is_btrfs_subvolume returns for its path
    btrfs_env,              \* how `btrfs property` behaves on this system
    calls,                  \* the subvolume_set_rw / _ro calls made so far
    rx_pc,                  \* position of receive_btrfs_stream
    stage,                  \* the tasks and child processes it has spawned
    rx_result,              \* what receive_btrfs_stream returned
    progress_pc,            \* position of the copier on a ProgressReader
    progress_total,         \* ProgressReader.total_size
    progress_bytes,         \* ProgressReader.bytes_read
    progress_tasks,         \* the status-update tasks spawned, not yet run
    progress_shown          \* progress of the Installing in the status slot

vars == <<faulty, auto_install_updates, boot_id, boot_name, update_status,
          pending_update, confirmation_ch, update_ch, sent, pc, request,
          processed, changelog_content, signature_content, inst,
          tasks, deployments, default_id, next_id, delete_calls, clients,
          confirm_result, last_status, last_progress, signals, senders,
          term_pc, poller_pc, update_done, stream, inner, delivered, hasher,
          hash_result, lock_held, finalized, eof_seen, error_seen,
          signature_len, modpow_bytes, hash_bytes, verify_result, subvol_ro,
          is_subvolume, btrfs_env, calls, rx_pc, stage, rx_result,
          progress_pc, progress_total, progress_bytes, progress_tasks,
          progress_shown>>

cfgVars == <<faulty, auto_install_updates, boot_id, boot_name>>
fsVars == <<deployments, default_id, next_id, delete_calls>>
archiveVars == <<changelog_content, signature_content>>
clientVars == <<clients, confirm_result>>
loopVars == <<pc, request, processed, archiveVars, inst>>
monitorVars == <<last_status, last_progress, signals>>
\* the state of the components beside the request loop
lifecycleVars == <<senders, term_pc, poller_pc, update_done>>
readerVars == <<stream, inner, delivered, hasher, hash_result, lock_held,
                finalized, eof_seen, error_seen>>
verifierVars == <<signature_len, modpow_bytes, hash_bytes, verify_result>>
btrfsVars == <<subvol_ro, is_subvolume, btrfs_env, calls>>
pipelineVars == <<rx_pc, stage, rx_result>>
progressVars == <<progress_pc, progress_total, progress_bytes, progress_tasks,
                  progress_shown>>
componentVars ==
    <<monitorVars, lifecycleVars, readerVars, verifierVars, btrfsVars,
      pipelineVars, progressVars>>
\* what an action of one component leaves alone in the others
offMonitor == <<lifecycleVars, readerVars, verifierVars, btrfsVars,
    pipelineVars, progressVars>>
offLifecycle == <<monitorVars, readerVars, verifierVars, btrfsVars,
    pipelineVars, progressVars>>
offReader == <<monitorVars, lifecycleVars, verifierVars, btrfsVars,
    pipelineVars, progressVars>>
offVerifier == <<monitorVars, lifecycleVars, readerVars, btrfsVars,
    pipelineVars, progressVars>>
offBtrfs ==
    <<monitorVars, lifecycleVars, readerVars, verifierVars, pipelineVars,
      progressVars>>
offPipeline ==
    <<monitorVars, lifecycleVars, readerVars, verifierVars, btrfsVars,
      progressVars>>
offProgress ==
    <<monitorVars, lifecycleVars, readerVars, verifierVars, btrfsVars,
      pipelineVars>>
serviceVars == <<cfgVars, pending_update, confirmation_ch, update_ch, sent,
                 loopVars, tasks, fsVars, clientVars>>

\* size, bytes_read: ProgressReader::total_size, bytes_read;
\* hash: HashingReader::hash_result; subvol: the id of the received subvolume
\* (0: none); error: the error install_update returned ("": none);
\* confirmed, verified, hook_ran: what this run of process_update_entry has
\* done so far; manifest: what install_update found at
\* usr/share/embuer/manifest.json of the received subvolume; gc: what its
\* clear_old_deployments pass did; hook: what install_update found for the
\* install script the manifest names; http_status: the response
\* extract_url_update_contents received
NoGc == [result |-> "", failed |-> {}, stopped_at |-> 0]

NoInstall ==
    [size |-> 0, bytes_read |-> 0, hash |-> None, subvol |-> 0, error |-> "",
     confirmed |-> FALSE, verified |-> FALSE, hook_ran |-> FALSE,
     manifest |-> "", hook |-> "", gc |-> NoGc, http_status |-> 0]

\* Service::new
Init ==
    /\ faulty \in BOOLEAN
    /\ auto_install_updates \in BOOLEAN
    /\ deployments = InitialDeployments
    /\ default_id \in deployments
    /\ boot_id = default_id
    /\ boot_name = NameOf(boot_id)
    /\ next_id = FirstFreshId
    /\ delete_calls = {}
    /\ update_status = Idle
    /\ pending_update = None
    /\ confirmation_ch = <<>>
    /\ update_ch = <<>>
    /\ sent = 0
    /\ pc = "recv"
    /\ request = None
    /\ processed = 0
    /\ changelog_content = None
    /\ signature_content = None
    /\ inst = NoInstall
    /\ tasks = EmptyBag
    /\ clients = [c \in Clients |-> "idle"]
    /\ confirm_result = None
    /\ last_status = Idle
    /\ last_progress = -1
    /\ signals = <<>>
    /\ poller_pc \in {"none", "select"}
    /\ senders = IF poller_pc = "none" THEN 1 ELSE 2
    /\ term_pc = "idle"
    /\ update_done = FALSE
    /\ stream \in Streams
    /\ inner = stream
    /\ delivered = <<>>
    /\ hasher = <<>>
    /\ hash_result = None
    /\ lock_held = FALSE
    /\ finalized = 0
    /\ eof_seen = FALSE
    /\ error_seen = FALSE
    /\ signature_len \in {KeySize - 1, KeySize}
    /\ modpow_bytes \in ModpowValues
    /\ hash_bytes \in HashInputs
    /\ verify_result = ""
    /\ subvol_ro \in BOOLEAN
    /\ is_subvolume \in BOOLEAN
    /\ btrfs_env \in BtrfsEnvs
    /\ calls = <<>>
    /\ rx_pc = "spawn_xz"
    /\ stage = [t \in Stages |-> "none"]
    /\ rx_result = ""
    /\ progress_pc = "none"
    /\ progress_total = 0
    /\ progress_bytes = 0
    /\ progress_tasks = EmptyBag
    /\ progress_shown = 0

source_desc == Unwrap(request).source.desc

(* ------------------------- bus: enqueue a request --------------------- *)

\* EmbuerDBus::install_update_from_file / install_update_from_url, and the
\* periodic poller: update_tx.send(request)
SendRequest(src) ==
    /\ sent < MaxRequests
    /\ Len(update_ch) < RequestCapacity
    /\ update_ch' = Append(update_ch, [id |-> sent + 1, source |-> src])
    /\ sent' = sent + 1
    /\ UNCHANGED <<cfgVars, componentVars, update_status, pending_update, confirmation_ch,
                   loopVars, tasks, fsVars, clientVars>>

(* --------------------------- the request loop ------------------------- *)

\* a receive that takes the newest request
RecvNewest(ch) == [item |-> ch[Len(ch)], rest |-> SubSeq(ch, 1, Len(ch) - 1)]

\* update_rx.recv(): the oldest request in the channel and what remains
Recv(ch) == [item |-> Head(ch), rest |-> Tail(ch)]

\* continue 'check_req: the iteration's locals are dropped
FinishRequest ==
    /\ pc' = "recv"
    /\ request' = None
    /\ processed' = processed + 1
    /\ changelog_content' = None
    /\ signature_content' = None
    /\ inst' = NoInstall

\* while let Some(request) = update_rx.recv().await, and set_status(Checking)
\* recv() returns None once the channel is empty and no Sender is left: the
\* loop ends
LoopRecv ==
    /\ pc = "recv"
    /\ IF update_ch # <<>>
       THEN /\ LET received == Recv(update_ch).item
               IN request' = Some([id |-> received.id,
                                   source |-> received.source,
                                   default_at_recv |-> default_id,
                                   deployments_at_recv |-> deployments,
                                   read_error |-> FALSE])
            /\ update_ch' = Recv(update_ch).rest
            /\ update_status' = Checking
            /\ pc' = "open"
       ELSE /\ senders = 0
            /\ pc' = "stopped"
            /\ UNCHANGED <<request, update_ch, update_status>>
    /\ UNCHANGED <<cfgVars, componentVars, pending_update, confirmation_ch, sent, processed,
                   archiveVars, inst, tasks, fsVars, clientVars>>

\* the status codes a server answers with
HttpStatuses == {200, 304, 404, 500}

\* a check that takes only 404 for "no update"
IsNotNotFound(status) == status # 404

\* resp.status().is_success(): a 2xx code
is_success(status) == status >= 200 /\ status <= 299

\* extract_url_update_contents up to send().await: a response, or no
\* response; extract_file_update_contents: the file opens, or not
OpenOutcomes(kind) ==
    (IF kind = "Url" THEN {"response"} ELSE {"ok"})
        \cup (IF faulty THEN {"error"} ELSE {})

\* let Ok(mut entries) = archive.entries() else { Failed }
ArchiveEntries ==
    \/ /\ pc' = "entries"
       /\ inst' = NoInstall
       /\ UNCHANGED <<update_status, request, processed, archiveVars>>
    \/ /\ faulty
       /\ update_status' = Failed(source_desc, "Failed to read archive entries")
       /\ FinishRequest

OpenSource ==
    /\ pc = "open"
    /\ \E outcome \in OpenOutcomes(Unwrap(request).source.kind) :
        \/ /\ outcome = "ok"
           /\ ArchiveEntries
        \/ /\ outcome = "response"
           /\ \E status \in HttpStatuses :
                inst' = [inst EXCEPT !.http_status = status]
           /\ pc' = "response"
           /\ UNCHANGED <<update_status, request, processed, archiveVars>>
        \/ /\ outcome = "error"
           /\ update_status' = Failed(source_desc, "Failed to read update contents")
           /\ FinishRequest
    /\ UNCHANGED <<cfgVars, componentVars, pending_update, confirmation_ch, update_ch, sent,
                   tasks, fsVars, clientVars>>

\* if !resp.status().is_success() { return Err(NoUpdateAvailable) }, and the
\* loop's arm for it: set_status(Idle); continue 'check_req
CheckResponse ==
    /\ pc = "response"
    /\ IF is_success(inst.http_status)
       THEN ArchiveEntries
       ELSE /\ update_status' = Idle
            /\ FinishRequest
    /\ UNCHANGED <<cfgVars, componentVars, pending_update, confirmation_ch, update_ch, sent,
                   tasks, fsVars, clientVars>>

\* entries.next() returns None: the archive has no further entry
EntriesEnd ==
    /\ pc = "entries"
    /\ FinishRequest
    /\ UNCHANGED <<cfgVars, componentVars, update_status, pending_update, confirmation_ch,
                   update_ch, sent, tasks, fsVars, clientVars>>

\* entries.next() returns Err(e)
EntryError ==
    /\ pc = "entries"
    /\ faulty
    /\ update_status' = Failed(source_desc, "Corrupted tar archive")
    /\ FinishRequest
    /\ UNCHANGED <<cfgVars, componentVars, pending_update, confirmation_ch, update_ch, sent,
                   tasks, fsVars, clientVars>>

\* an entry with another name, or whose path is not valid UTF-8: skipped
EntryOther ==
    /\ pc = "entries"
    /\ UNCHANGED vars

\* path_str == "CHANGELOG"
EntryChangelog ==
    /\ pc = "entries"
    /\ \/ /\ faulty
          /\ update_status' = Failed(source_desc, "Failed to read CHANGELOG")
          /\ FinishRequest
       \/ \E content \in Changelogs :
            /\ changelog_content' = Some(content)
            /\ UNCHANGED <<update_status, pc, request, processed,
                           signature_content, inst>>
    /\ UNCHANGED <<cfgVars, componentVars, pending_update, confirmation_ch, update_ch, sent,
                   tasks, fsVars, clientVars>>

\* path_str == "update.signature"
EntrySignature ==
    /\ pc = "entries"
    /\ \/ /\ faulty
          /\ \E error \in {"Failed to read update.signature",
                           "update.signature file is empty"} :
                update_status' = Failed(source_desc, error)
          /\ FinishRequest
       \/ \E content \in IF faulty THEN Signatures
                                  ELSE {SignatureOver("A")} :
            /\ signature_content' = Some(content)
            /\ UNCHANGED <<update_status, pc, request, processed,
                           changelog_content, inst>>
    /\ UNCHANGED <<cfgVars, componentVars, pending_update, confirmation_ch, update_ch, sent,
                   tasks, fsVars, clientVars>>

\* a service that never asks
NeverNeedsConfirmation(auto_install) == FALSE

\* if !config.auto_install_updates()
NeedsConfirmation(auto_install) == ~auto_install

\* path_str == "update.btrfs.xz": header.entry_size(), up to the call of
\* process_update_entry
EntryPayload ==
    /\ pc = "entries"
    /\ \/ /\ faulty
          /\ update_status' = Failed(source_desc, "Failed to get update.btrfs.xz size")
          /\ FinishRequest
       \/ /\ (IsSome(changelog_content) /\ IsSome(signature_content))
                => next_id < FirstFreshId + MaxReceived
          /\ \E entry_size \in 0..MaxChunks :
                inst' = [NoInstall EXCEPT !.size = entry_size]
          /\ pc' = "payload"
          /\ UNCHANGED <<update_status, request, processed, changelog_content,
                         signature_content>>
    /\ UNCHANGED <<cfgVars, componentVars, pending_update, confirmation_ch, update_ch, sent,
                   tasks, fsVars, clientVars>>

\* a check that takes CHANGELOG and update.signature for read
MetadataAssumed(changelog, signature) == TRUE

\* changelog_content.ok_or_else(..)? and signature_content.ok_or_else(..)?
MetadataPresent(changelog, signature) == IsSome(changelog) /\ IsSome(signature)

\* process_update_entry up to its first await: changelog_content.ok_or_else(..)?
\* and signature_content.ok_or_else(..)?; on Err the loop's arm is
\* Err(_) => continue 'check_req
ProcessUpdateEntry ==
    /\ pc = "payload"
    /\ \/ /\ ~MetadataPresent(changelog_content, signature_content)
          /\ FinishRequest
       \/ /\ MetadataPresent(changelog_content, signature_content)
          /\ pc' = IF NeedsConfirmation(auto_install_updates)
                   THEN "set_pending" ELSE "set_installing"
          /\ UNCHANGED <<request, processed, changelog_content,
                         signature_content, inst>>
    /\ UNCHANGED <<cfgVars, componentVars, update_status, pending_update, confirmation_ch,
                   update_ch, sent, tasks, fsVars, clientVars>>

(* ------------------ process_update_entry: confirmation ---------------- *)

version == extract_version_from_changelog(Unwrap(changelog_content))

\* *pending_update.write().await = Some(pending)
SetPending ==
    /\ pc = "set_pending"
    /\ pending_update' =
         Some(PendingUpdate(version, Unwrap(changelog_content), source_desc))
    /\ pc' = "set_awaiting"
    /\ UNCHANGED <<cfgVars, componentVars, update_status, confirmation_ch, update_ch, sent,
                   request, processed, archiveVars, inst, tasks, fsVars,
                   clientVars>>

\* set_status(AwaitingConfirmation { version, source })
SetAwaiting ==
    /\ pc = "set_awaiting"
    /\ update_status' = AwaitingConfirmation(version, source_desc)
    /\ pc' = "wait_confirmation"
    /\ UNCHANGED <<cfgVars, componentVars, pending_update, confirmation_ch, update_ch, sent,
                   request, processed, archiveVars, inst, tasks, fsVars,
                   clientVars>>

\* a loop that takes every decision for an acceptance
AcceptsAnything(decision) == TRUE

\* match confirmation_rx.recv().await: Some(true) against Some(false)
Accepts(decision) == decision = TRUE

WaitConfirmation ==
    /\ pc = "wait_confirmation"
    /\ confirmation_ch # <<>>
    /\ confirmation_ch' = Tail(confirmation_ch)
    /\ inst' = [inst EXCEPT !.confirmed = Head(confirmation_ch)]
    /\ pc' = IF Accepts(Head(confirmation_ch)) THEN "accepted" ELSE "rejected"
    /\ UNCHANGED <<cfgVars, componentVars, update_status, pending_update, update_ch, sent,
                   request, processed, archiveVars, tasks, fsVars, clientVars>>

\* Some(true): *pending_update.write().await = None
ClearPendingAccepted ==
    /\ pc = "accepted"
    /\ pending_update' = None
    /\ pc' = "set_installing"
    /\ UNCHANGED <<cfgVars, componentVars, update_status, confirmation_ch, update_ch, sent,
                   request, processed, archiveVars, inst, tasks, fsVars,
                   clientVars>>

\* Some(false): *pending_update.write().await = None
ClearPendingRejected ==
    /\ pc = "rejected"
    /\ pending_update' = None
    /\ pc' = "publish_rejected"
    /\ UNCHANGED <<cfgVars, componentVars, update_status, confirmation_ch, update_ch, sent,
                   request, processed, archiveVars, inst, tasks, fsVars,
                   clientVars>>

\* Some(false): set_status(Failed), return Ok(false), continue 'check_req
PublishRejected ==
    /\ pc = "publish_rejected"
    /\ update_status' = Failed(source_desc, "Update rejected by user")
    /\ FinishRequest
    /\ UNCHANGED <<cfgVars, componentVars, pending_update, confirmation_ch, update_ch, sent,
                   tasks, fsVars, clientVars>>

(* -------------------- process_update_entry: streaming ----------------- *)

\* *status = UpdateStatus::Installing { source, progress: 0 }
SetInstalling ==
    /\ pc = "set_installing"
    /\ update_status' = Installing(source_desc, 0)
    /\ pc' = "stream"
    /\ UNCHANGED <<cfgVars, componentVars, pending_update, confirmation_ch, update_ch, sent,
                   request, processed, archiveVars, inst, tasks, fsVars,
                   clientVars>>

\* ProgressReader::poll_read: if was_zero || reader.should_update()
SpawnsUpdate(was_zero, elapsed) == was_zero \/ elapsed

\* tokio::spawn(async move { *status = Installing { source, progress } })
Spawn(spawns, bytes_read) ==
    IF spawns
    THEN /\ BagCardinality(tasks) < MaxTasks
         /\ tasks' = tasks (+) SetToBag({[source |-> source_desc,
                progress |-> calculate_progress(bytes_read, inst.size)]})
    ELSE UNCHANGED tasks

\* one read of the copier that delivers a chunk of the entry
StreamRead ==
    /\ pc = "stream"
    /\ inst.bytes_read < inst.size
    /\ inst' = [inst EXCEPT !.bytes_read = @ + 1]
    /\ \E elapsed \in BOOLEAN :
         Spawn(SpawnsUpdate(inst.bytes_read = 0, elapsed), inst.bytes_read + 1)
    /\ UNCHANGED <<cfgVars, componentVars, update_status, pending_update, confirmation_ch,
                   update_ch, sent, pc, request, processed, archiveVars,
                   fsVars, clientVars>>

\* the read that delivers no byte: EOF, HashingReader::finalize_hash
StreamEof ==
    /\ pc = "stream"
    /\ inst.bytes_read = inst.size
    /\ \E payload \in IF faulty THEN Payloads ELSE {"A"} :
         inst' = [inst EXCEPT !.hash = Some(Sha512(payload, TRUE))]
    /\ \E elapsed \in BOOLEAN :
         Spawn(SpawnsUpdate(inst.bytes_read = 0, elapsed), inst.bytes_read)
    /\ pc' = "join"
    /\ UNCHANGED <<cfgVars, componentVars, update_status, pending_update, confirmation_ch,
                   update_ch, sent, request, processed, archiveVars, fsVars,
                   clientVars>>

\* the copier stops before EOF: the source returns a read error (the digest
\* of the prefix is finalized) or the pipe to xz is broken (no digest)
StreamBroken ==
    /\ pc = "stream"
    /\ faulty
    /\ \/ /\ inst.bytes_read < inst.size
          /\ \E payload \in Payloads :
               inst' = [inst EXCEPT !.hash = Some(Sha512(payload, FALSE))]
          /\ request' = Some([Unwrap(request) EXCEPT !.read_error = TRUE])
       \/ UNCHANGED <<inst, request>>
    /\ pc' = "join"
    /\ UNCHANGED <<cfgVars, componentVars, update_status, pending_update, confirmation_ch,
                   update_ch, sent, processed, archiveVars, tasks,
                   fsVars, clientVars>>

(* ----------------------------- install_update ----------------------- *)

\* return Err(error), from the locals `record`
InstallFailsWith(record, error) ==
    /\ inst' = [record EXCEPT !.error = error]
    /\ pc' = "set_failed"

InstallFails(error) == InstallFailsWith(inst, error)

\* manifest.json at its place and Manifest::from_file on it
ManifestRead(manifest) == [inst EXCEPT !.manifest = manifest]

ManifestError(manifest) ==
    IF manifest = "missing" THEN "Installed subvolume is missing manifest.json"
                            ELSE "Installed subvolume has invalid manifest.json"

\* an install_update that leaves what it rejects
SubvolumeDeleteSkipped(id) == UNCHANGED <<deployments, delete_calls>>

\* if let Err(e) = btrfs.subvolume_delete(subvolume_path.clone()) { warn }
SubvolumeDelete(id) ==
    /\ delete_calls' = delete_calls \cup {id}
    /\ \/ deployments' = deployments \ {id}
       \/ faulty /\ deployments' = deployments

\* receive_btrfs_stream returns: the copier, xz and btrfs receive are joined.
\* btrfs receive names the subvolume it created, creates one without naming
\* it, or fails, with or without leaving a subvolume behind. An error of the
\* copier is logged and xz is given EOF: the result is that of xz and btrfs
\* receive on what they were given, whatever the digest
ReceiveOutcomes(hash) ==
    {"subvolume"} \cup (IF faulty THEN {"no name", "error"} ELSE {})

Join ==
    /\ pc = "join"
    /\ \E outcome \in ReceiveOutcomes(inst.hash) :
        \/ /\ outcome = "subvolume"
           /\ deployments' = deployments \cup {next_id}
           /\ next_id' = next_id + 1
           /\ inst' = [inst EXCEPT !.subvol = next_id]
           /\ pc' = "validate"
        \/ /\ outcome = "no name"
           /\ deployments' = deployments \cup {next_id}
           /\ next_id' = next_id + 1
           /\ InstallFails("No subvolume name found")
        \/ /\ outcome = "error"
           /\ \/ UNCHANGED <<deployments, next_id>>
              \/ /\ deployments' = deployments \cup {next_id}
                 /\ next_id' = next_id + 1
           /\ InstallFails("btrfs receive failed")
    /\ UNCHANGED <<cfgVars, componentVars, update_status, pending_update, confirmation_ch,
                   update_ch, sent, request, processed, archiveVars, tasks,
                   default_id, delete_calls, clientVars>>

\* btrfs_subvol_get_id, the manifest, subvolume_set_rw, the digest and
\* verify_signature
Validate ==
    /\ pc = "validate"
    /\ \/ /\ faulty
          /\ InstallFails("BTRFS subvolume error")
          /\ UNCHANGED <<deployments, delete_calls>>
       \/ /\ faulty
          /\ \E manifest \in {"missing", "invalid"} :
                InstallFailsWith(ManifestRead(manifest), ManifestError(manifest))
          /\ SubvolumeDelete(inst.subvol)
       \/ /\ faulty
          /\ InstallFailsWith(ManifestRead("parsed"), "cannot set read-write")
          /\ UNCHANGED <<deployments, delete_calls>>
       \/ /\ ~IsSome(inst.hash)
          /\ InstallFailsWith(ManifestRead("parsed"),
                              "Failed to compute SHA512 hash of update stream")
          /\ SubvolumeDelete(inst.subvol)
       \/ /\ IsSome(inst.hash)
          /\ IF verify_signature(Unwrap(signature_content), Unwrap(inst.hash))
             THEN /\ inst' = [ManifestRead("parsed") EXCEPT !.verified = TRUE]
                  /\ pc' = "hook"
             ELSE InstallFailsWith(ManifestRead("parsed"), "Invalid signature")
          /\ UNCHANGED <<deployments, delete_calls>>
    /\ UNCHANGED <<cfgVars, componentVars, update_status, pending_update, confirmation_ch,
                   update_ch, sent, request, processed, archiveVars, tasks,
                   default_id, next_id, clientVars>>

\* an install_update that gives up when the script reports a failure
NonZeroExitIsFatal(success) == ~success

\* if !status.success() { warn!(..) } else { info!(..) }: whatever the exit
\* status of the script, install_update goes on
ExitIsFatal(success) == FALSE

\* if let Some(install_script) = manifest.install_script()
Hook ==
    /\ pc = "hook"
    /\ \E outcome \in {"no hook", "ran"} \cup
            (IF faulty THEN {"not executable", "not started"} ELSE {}) :
        \/ /\ outcome = "no hook"
           /\ inst' = [inst EXCEPT !.hook = outcome]
           /\ pc' = "set_default"
           /\ UNCHANGED <<deployments, delete_calls>>
        \/ /\ outcome = "not executable"
           /\ InstallFailsWith([inst EXCEPT !.hook = outcome],
                               "Installed subvolume has invalid manifest.json")
           /\ SubvolumeDelete(inst.subvol)
        \/ /\ outcome = "not started"
           /\ InstallFailsWith([inst EXCEPT !.hook = outcome],
                               "Failed to execute install script")
           /\ UNCHANGED <<deployments, delete_calls>>
        \/ /\ outcome = "ran"
           /\ \E success \in IF faulty THEN BOOLEAN ELSE {TRUE} :
                LET ran == [inst EXCEPT !.hook_ran = TRUE,
                                        !.hook = IF success THEN "ran"
                                                 ELSE "exited non-zero"]
                IN IF ExitIsFatal(success)
                   THEN InstallFailsWith(ran, "Install script failed")
                   ELSE inst' = ran /\ pc' = "set_default"
           /\ UNCHANGED <<deployments, delete_calls>>
    /\ UNCHANGED <<cfgVars, componentVars, update_status, pending_update, confirmation_ch,
                   update_ch, sent, request, processed, archiveVars, tasks,
                   default_id, next_id, clientVars>>

\* an install that goes on without setting the default
SetDefaultSkipped ==
    /\ pc = "set_default"
    /\ pc' = "set_clearing"
    /\ UNCHANGED <<cfgVars, componentVars, update_status, pending_update, confirmation_ch,
                   update_ch, sent, request, processed, archiveVars, inst,
                   tasks, fsVars, clientVars>>

\* btrfs.subvolume_set_default(subvol_id, &rootfs_path)?
SetDefault ==
    /\ pc = "set_default"
    /\ \/ /\ default_id' = inst.subvol
          /\ pc' = "set_clearing"
          /\ UNCHANGED inst
       \/ /\ faulty
          /\ InstallFails("cannot set the default subvolume")
          /\ UNCHANGED default_id
    /\ UNCHANGED <<cfgVars, componentVars, update_status, pending_update, confirmation_ch,
                   update_ch, sent, request, processed, archiveVars, tasks,
                   deployments, next_id, delete_calls, clientVars>>

(* --------------- process_update_entry: the final status --------------- *)

\* Ok(Some(deployment_name)): set_status(Clearing)
SetClearing ==
    /\ pc = "set_clearing"
    /\ update_status' = Clearing
    /\ pc' = "gc"
    /\ UNCHANGED <<cfgVars, componentVars, pending_update, confirmation_ch, update_ch, sent,
                   request, processed, archiveVars, inst, tasks, fsVars,
                   clientVars>>

\* a pass that protects the next-boot deployment alone
PreservedIfCurrent(id, boot, current) == id = current

\* clear_old_deployments: if id == boot_id / if id == current_id: continue
Preserved(id, boot, current) == id = boot \/ id = current

\* a process_update_entry that reports the error of the pass
GcErrorFails(result) == result # "Ok"

\* Ok(count) => info!(..), Err(err) => warn!(..): "Non-fatal, continue"
GcErrorIsFatal(result) == FALSE

\* what a pass can return: Ok(cleared_count); Err from
\* subvolume_get_default or list_deployment_subvolumes, before the loop;
\* Err from an uninstall hook that cannot be started, inside the loop
GcResults == {"Ok"} \cup (IF faulty THEN {"query failed", "hook not started"} ELSE {})

\* clear_old_deployments: subvolume_delete is called on every listed
\* deployment that is not preserved, in the order of the listing, up to the
\* end of the listing or to the deployment whose uninstall hook cannot be
\* started (stopped_at); a delete the tool refuses is logged and the pass
\* goes on, as it does after a hook that exits with a non-zero status
ClearOldDeployments ==
    /\ pc = "gc"
    /\ LET candidates ==
             {d \in deployments : ~Preserved(d, boot_id, default_id)}
       IN \E result \in GcResults :
          \E stopped_at \in IF result = "hook not started" THEN candidates
                                                            ELSE {0} :
          \E attempted \in
                 CASE result = "Ok" -> {candidates}
                   [] result = "query failed" -> {{}}
                   [] result = "hook not started" ->
                        SUBSET (candidates \ {stopped_at}) :
          \E failed \in IF faulty THEN SUBSET attempted ELSE {{}} :
               /\ delete_calls' = delete_calls \cup attempted
               /\ deployments' = deployments \ (attempted \ failed)
               /\ LET cleared == [inst EXCEPT !.gc = [result |-> result,
                                                       failed |-> failed,
                                                       stopped_at |-> stopped_at]]
                  IN IF GcErrorIsFatal(result)
                     THEN InstallFailsWith(cleared, "Failed to clear old deployments")
                     ELSE inst' = cleared /\ pc' = "set_completed"
    /\ UNCHANGED <<cfgVars, componentVars, update_status, pending_update, confirmation_ch,
                   update_ch, sent, request, processed, archiveVars,
                   tasks, default_id, next_id, clientVars>>

\* set_status(Completed { source, deployment }); Ok(true): next entry
SetCompleted ==
    /\ pc = "set_completed"
    /\ update_status' = Completed(source_desc, NameOf(inst.subvol))
    /\ pc' = "entries"
    /\ inst' = NoInstall
    /\ UNCHANGED <<cfgVars, componentVars, pending_update, confirmation_ch, update_ch, sent,
                   request, processed, archiveVars, tasks, fsVars, clientVars>>

\* Err(err): set_status(Failed { source, error }); Ok(true): next entry
SetFailed ==
    /\ pc = "set_failed"
    /\ update_status' = Failed(source_desc, inst.error)
    /\ pc' = "entries"
    /\ inst' = NoInstall
    /\ UNCHANGED <<cfgVars, componentVars, pending_update, confirmation_ch, update_ch, sent,
                   request, processed, archiveVars, tasks, fsVars, clientVars>>

(* ------------------ the status-update tasks of ProgressReader --------- *)

\* a spawned task runs: *status = UpdateStatus::Installing { source, progress }
TaskRun(t) ==
    /\ BagIn(t, tasks)
    /\ update_status' = Installing(t.source, t.progress)
    /\ tasks' = tasks (-) SetToBag({t})
    /\ UNCHANGED <<cfgVars, componentVars, pending_update, confirmation_ch, update_ch, sent,
                   loopVars, fsVars, clientVars>>

(* ------------------------- bus: confirm_update ------------------------ *)

\* a status check that lets every call through
AlwaysAwaiting(status) == TRUE

\* matches!(current_status, UpdateStatus::AwaitingConfirmation { .. })
IsAwaiting(status) == status.kind = "AwaitingConfirmation"

Returns(c, result) ==
    /\ clients' = [clients EXCEPT ![c] = "idle"]
    /\ confirm_result' = Some(result)

\* let current_status = data.update_status.read().await.clone()
ConfirmCheckStatus(c) ==
    /\ clients[c] = "idle"
    /\ IF IsAwaiting(update_status)
       THEN /\ clients' = [clients EXCEPT ![c] = "status_ok"]
            /\ UNCHANGED confirm_result
       ELSE Returns(c, "Err")
    /\ UNCHANGED <<cfgVars, componentVars, update_status, pending_update, confirmation_ch,
                   update_ch, sent, loopVars, tasks, fsVars>>

\* let has_pending = data.pending_update.read().await.is_some()
ConfirmCheckPending(c) ==
    /\ clients[c] = "status_ok"
    /\ IF IsSome(pending_update)
       THEN /\ clients' = [clients EXCEPT ![c] = "pending_ok"]
            /\ UNCHANGED confirm_result
       ELSE Returns(c, "Err")
    /\ UNCHANGED <<cfgVars, componentVars, update_status, pending_update, confirmation_ch,
                   update_ch, sent, loopVars, tasks, fsVars>>

\* data.confirmation_tx.send(accepted).await
ConfirmSend(c, accepted) ==
    /\ clients[c] = "pending_ok"
    /\ Len(confirmation_ch) < ConfirmationCapacity
    /\ confirmation_ch' = Append(confirmation_ch, accepted)
    /\ Returns(c, "Ok")
    /\ UNCHANGED <<cfgVars, componentVars, update_status, pending_update, update_ch, sent,
                   loopVars, tasks, fsVars>>

(* ------------------------ periodic_url_checker ------------------------ *)

PollerSource == [kind |-> "Url", desc |-> "http://host/u.tar"]

\* the sleep branch of select!: if update_done { continue 'check }
PollerTick ==
    /\ poller_pc = "select"
    /\ poller_pc' = IF update_done THEN "select" ELSE "send"
    /\ UNCHANGED <<serviceVars, update_status, offLifecycle, senders, term_pc,
                   update_done>>

\* update_tx.send(request).await returns Ok(_): update_done = true
PollerSend ==
    /\ poller_pc = "send"
    /\ sent < MaxRequests
    /\ Len(update_ch) < RequestCapacity
    /\ update_ch' = Append(update_ch, [id |-> sent + 1, source |-> PollerSource])
    /\ sent' = sent + 1
    /\ update_done' = TRUE
    /\ poller_pc' = "select"
    /\ UNCHANGED <<cfgVars, offLifecycle, senders, term_pc, update_status,
                   pending_update, confirmation_ch, loopVars, tasks, fsVars,
                   clientVars>>

\* the notified() branch of select!: break 'check; the task ends and its
\* Sender is dropped
PollerStop ==
    /\ poller_pc = "woken"
    /\ poller_pc' = "stopped"
    /\ senders' = senders - 1
    /\ UNCHANGED <<serviceVars, update_status, offLifecycle, term_pc,
                   update_done>>

(* ----------------------- terminate_update_check ----------------------- *)

\* drop(self.update_tx.clone()): a Sender is made and dropped
DropOfClone(handles) == (handles + 1) - 1

\* data_lock.notify.notify_waiters(): wakes the poller if it waits in
\* select!, and leaves no permit if it does not
TerminateNotify ==
    /\ term_pc = "idle"
    /\ term_pc' = "drop"
    /\ poller_pc' = IF poller_pc = "select" THEN "woken" ELSE poller_pc
    /\ UNCHANGED <<serviceVars, update_status, offLifecycle, senders,
                   update_done>>

TerminateDrop ==
    /\ term_pc = "drop"
    /\ senders' = DropOfClone(senders)
    /\ term_pc' = "join_checker"
    /\ UNCHANGED <<serviceVars, update_status, offLifecycle, poller_pc,
                   update_done>>

\* checker.await, then request_loop.await: each returns when its task has
\* ended
TerminateJoin ==
    /\ IF term_pc = "join_checker"
       THEN /\ poller_pc \in {"none", "stopped"}
            /\ term_pc' = "join_loop"
       ELSE /\ term_pc = "join_loop"
            /\ pc = "stopped"
            /\ term_pc' = "returned"
    /\ UNCHANGED <<serviceVars, update_status, offLifecycle, senders, poller_pc,
                   update_done>>

(* ---------------------------- HashingReader --------------------------- *)

\* hex::encode(Sha512::digest(bytes)): one value per byte sequence
HexSha512(bytes) == [sha512 |-> bytes]

\* what finalize_hash leaves in the slot: try_write fails while a read guard
\* is held, and the digest is then dropped
SlotAfterFinalize(digest) == IF lock_held THEN hash_result ELSE Some(digest)

\* finalize_hash, and the same statements of get_hash: the hasher is replaced
\* by Sha512::new() and the digest of what it had absorbed goes to the slot
finalize_hash(absorbed) ==
    /\ hasher' = <<>>
    /\ hash_result' = SlotAfterFinalize(HexSha512(absorbed))
    /\ finalized' = finalized + 1

\* the bytes inner puts into a buffer with `capacity` bytes left: at least one
\* when there is room and the source has bytes, none otherwise
ReadSizes(capacity) ==
    IF capacity = 0 \/ inner = <<>>
    THEN {0}
    ELSE {n \in 1..capacity : n <= Len(inner)}

\* HashingReader::poll_read with a buffer of `capacity` bytes left
PollRead(capacity) ==
    /\ finalized < MaxFinalize
    /\ \E outcome \in {"Pending", "Err", "Ok"} :
         CASE outcome = "Pending" ->
                UNCHANGED readerVars
           [] outcome = "Err" ->
                /\ finalize_hash(hasher)
                /\ error_seen' = TRUE
                /\ UNCHANGED <<stream, inner, delivered, lock_held, eof_seen>>
           [] outcome = "Ok" ->
                \E n \in ReadSizes(capacity) :
                   LET newly_read == SubSeq(inner, 1, n)
                       absorbed == hasher \o newly_read
                   IN /\ inner' = SubSeq(inner, n + 1, Len(inner))
                      /\ delivered' = delivered \o newly_read
                      /\ eof_seen' = (eof_seen \/ inner = <<>>)
                      /\ IF n = 0
                         THEN finalize_hash(absorbed)
                         ELSE /\ hasher' = absorbed
                              /\ UNCHANGED <<hash_result, finalized>>
                      /\ UNCHANGED <<stream, lock_held, error_seen>>
    /\ UNCHANGED <<serviceVars, update_status, offReader>>

\* HashingReader::get_hash, called after the stream has been consumed
GetHash ==
    /\ finalized < MaxFinalize
    /\ eof_seen
    /\ finalize_hash(hasher)
    /\ UNCHANGED <<stream, inner, delivered, lock_held, eof_seen, error_seen>>
    /\ UNCHANGED <<serviceVars, update_status, offReader>>

\* an observer of the slot takes or releases hash_result.read()
ObserverRead ==
    /\ lock_held' = ~lock_held
    /\ UNCHANGED <<stream, inner, delivered, hasher, hash_result, finalized,
                   eof_seen, error_seen>>
    /\ UNCHANGED <<serviceVars, update_status, offReader>>

(* -------------------- ServiceInner::verify_signature ------------------ *)

\* full_padded: vec![0u8; key_size] with the bytes copied to its end
full_padded(bytes, key_size) ==
    [i \in 1..(key_size - Len(bytes)) |-> 0] \o bytes

\* the position the `while` over the 0xFF bytes stops at, from position i
RECURSIVE sep_idx(_, _)
sep_idx(padded_bytes, i) ==
    IF i <= Len(padded_bytes) /\ padded_bytes[i] = 255
    THEN sep_idx(padded_bytes, i + 1)
    ELSE i

\* the checks of verify_signature on the decrypted block, in their order;
\* a DigestInfo that differs is logged and not refused
verify_padded(sig_len, bytes, hash) ==
    LET padded_bytes == full_padded(bytes, KeySize)
        sep == sep_idx(padded_bytes, 3)
        hash_start == sep + DigestInfoLen
    IN CASE sig_len # KeySize ->
              "Signature length does not match key size"
         [] Len(padded_bytes) < DigestInfoLen + Len(hash) ->
              "Invalid signature: decrypted value too short"
         [] padded_bytes[1] # 0 \/ padded_bytes[2] # 1 ->
              "Invalid signature: missing PKCS#1 v1.5 padding prefix"
         [] sep > Len(padded_bytes) \/ padded_bytes[sep] # 0 ->
              "Invalid signature: missing separator after padding"
         [] sep + DigestInfoLen + Len(hash) > Len(padded_bytes) ->
              "Invalid signature: not enough data for DigestInfo and hash"
         [] hash_start + Len(hash) > Len(padded_bytes) ->
              "Invalid signature: not enough data for hash"
         [] SubSeq(padded_bytes, hash_start + 1, hash_start + Len(hash)) # hash ->
              "Invalid signature: hash mismatch"
         [] OTHER -> "Ok"

VerifySignature ==
    /\ verify_result = ""
    /\ verify_result' = verify_padded(signature_len, modpow_bytes, hash_bytes)
    /\ UNCHANGED <<signature_len, modpow_bytes, hash_bytes>>
    /\ UNCHANGED <<serviceVars, update_status, offVerifier>>

(* ---------------- Btrfs::subvolume_set_rw, subvolume_set_ro ----------- *)

\* stdout of `btrfs property get -fts <path>`
PropertyGet(ro) == IF ro THEN "ro=true" ELSE "ro=false"

\* a guard that sets the property whatever its state
SetsAlways(property_state, want_ro) == TRUE

\* property_state.contains("ro=true") in subvolume_set_rw,
\* property_state.contains("ro=false") in subvolume_set_ro
NeedsSet(property_state, want_ro) == property_state = PropertyGet(~want_ro)

\* the property after `btrfs property set -fts <path> ro <want_ro>`
AfterPropertySet(ro, want_ro) == IF btrfs_env = "works" THEN want_ro ELSE ro

\* one call: the record of what it found, what it left, the property-set
\* commands it issued, the state it re-read and what it returned
subvolume_set(want_ro) ==
    LET before == subvol_ro
        after == AfterPropertySet(before, want_ro)
        base == [want_ro |-> want_ro, before |-> before, after |-> before,
                 set_commands |-> 0, reread |-> "", result |-> "Ok"]
    IN CASE ~is_subvolume ->
              [base EXCEPT !.result = "not a btrfs subvolume"]
         [] btrfs_env = "get fails" ->
              [base EXCEPT !.result = "BtrfsError"]
         [] ~NeedsSet(PropertyGet(before), want_ro) ->
              base
         [] btrfs_env = "set fails" ->
              [base EXCEPT !.set_commands = 1, !.result = "BtrfsError"]
         [] OTHER ->
              [base EXCEPT !.set_commands = 1, !.after = after,
                           !.reread = PropertyGet(after),
                           !.result = IF PropertyGet(after) = PropertyGet(want_ro)
                                      THEN "Ok"
                                      ELSE "property unchanged"]

SubvolumeSetRw ==
    /\ Len(calls) < MaxCalls
    /\ subvol_ro' = subvolume_set(FALSE).after
    /\ calls' = Append(calls, subvolume_set(FALSE))
    /\ UNCHANGED <<is_subvolume, btrfs_env>>
    /\ UNCHANGED <<serviceVars, update_status, offBtrfs>>

SubvolumeSetRo ==
    /\ Len(calls) < MaxCalls
    /\ subvol_ro' = subvolume_set(TRUE).after
    /\ calls' = Append(calls, subvolume_set(TRUE))
    /\ UNCHANGED <<is_subvolume, btrfs_env>>
    /\ UNCHANGED <<serviceVars, update_status, offBtrfs>>

(* ------------------ ServiceInner::receive_btrfs_stream ---------------- *)

Started(names) == [t \in Stages |-> IF t \in names THEN "running" ELSE stage[t]]

Finished(names) == \A t \in names : stage[t] \in {"ok", "failed"}

Returns_rx(result) ==
    /\ rx_pc' = "returned"
    /\ rx_result' = result

\* Command::new("xz")..spawn().map_err(ServiceError::IOError)?
SpawnXz ==
    /\ rx_pc = "spawn_xz"
    /\ \E spawned \in BOOLEAN :
          IF spawned
          THEN /\ stage' = Started({"xz_proc"})
               /\ rx_pc' = "spawn_input"
               /\ UNCHANGED rx_result
          ELSE /\ Returns_rx("IOError")
               /\ UNCHANGED stage
    /\ UNCHANGED <<serviceVars, update_status, offPipeline>>

\* let input_to_xz = tokio::spawn(..)
SpawnInput ==
    /\ rx_pc = "spawn_input"
    /\ stage' = Started({"input_to_xz"})
    /\ rx_pc' = "spawn_btrfs"
    /\ UNCHANGED rx_result
    /\ UNCHANGED <<serviceVars, update_status, offPipeline>>

\* Command::new("bash")..spawn().map_err(ServiceError::IOError)?, then the
\* three tokio::spawn of pipe_task, stderr_task and the joining task
SpawnBtrfs ==
    /\ rx_pc = "spawn_btrfs"
    /\ \E spawned \in BOOLEAN :
          IF spawned
          THEN /\ stage' = Started({"btrfs_proc", "pipe_task", "stderr_task",
                                    "btrfs_task"})
               /\ rx_pc' = "join"
               /\ UNCHANGED rx_result
          ELSE /\ Returns_rx("IOError")
               /\ UNCHANGED stage
    /\ UNCHANGED <<serviceVars, update_status, offPipeline>>

\* a task or a child process ends; the joining task ends after its
\* tokio::join!(pipe_task, btrfs_proc.wait(), stderr_task)
StageEnds(t) ==
    /\ stage[t] = "running"
    /\ t = "btrfs_task" => Finished({"pipe_task", "btrfs_proc", "stderr_task"})
    /\ \E exit \in IF t \in Processes THEN {"ok", "failed"} ELSE {"ok"} :
          stage' = [stage EXCEPT ![t] = exit]
    /\ UNCHANGED <<rx_pc, rx_result>>
    /\ UNCHANGED <<serviceVars, update_status, offPipeline>>

\* tokio::join!(input_to_xz, xz_proc.wait(), btrfs_task) and the result
JoinStages ==
    /\ rx_pc = "join"
    /\ Finished({"input_to_xz", "xz_proc", "btrfs_task"})
    /\ Returns_rx(CASE stage["btrfs_proc"] = "failed" ->
                        "btrfs receive failed"
                   [] stage["xz_proc"] = "failed" ->
                        "xz decompressor failed"
                   [] OTHER -> "Ok")
    /\ UNCHANGED stage
    /\ UNCHANGED <<serviceVars, update_status, offPipeline>>

(* ---------------------------- ProgressReader -------------------------- *)

\* process_update_entry: *status = Installing { source, progress: 0 } and
\* ProgressReader::new(update_stream, Some(update_size), ..)
ProgressNew ==
    /\ progress_pc = "none"
    /\ \E update_size \in 0..MaxTotal : progress_total' = update_size
    /\ progress_bytes' = 0
    /\ progress_shown' = 0
    /\ progress_pc' = "reading"
    /\ UNCHANGED progress_tasks
    /\ UNCHANGED <<serviceVars, update_status, offProgress>>

\* tokio::spawn(async move { *status = Installing { source, progress } }):
\* one more task, which runs when the runtime polls it
SpawnStatusUpdate(queue, value) == queue (+) SetToBag({value})

\* ProgressReader::poll_read as the copier calls it: the entry gives bytes
\* until bytes_read is its size, then EOF, after which the copier stops
ProgressPollRead ==
    /\ progress_pc = "reading"
    /\ \E outcome \in {"Pending", "Err", "Ok"} :
         CASE outcome = "Pending" ->
                UNCHANGED progressVars
           [] outcome = "Err" ->
                /\ progress_pc' = "ended"
                /\ UNCHANGED <<progress_total, progress_bytes, progress_tasks,
                               progress_shown>>
           [] outcome = "Ok" ->
                \E bytes_increment \in 0..(progress_total - progress_bytes),
                   elapsed \in BOOLEAN :
                   /\ bytes_increment = 0 <=> progress_bytes = progress_total
                   /\ progress_bytes' = progress_bytes + bytes_increment
                   /\ IF SpawnsUpdate(progress_bytes = 0, elapsed)
                      THEN /\ BagCardinality(progress_tasks) < MaxSpawned
                           /\ progress_tasks' =
                                SpawnStatusUpdate(progress_tasks,
                                    calculate_progress(progress_bytes',
                                                       progress_total))
                      ELSE UNCHANGED progress_tasks
                   /\ progress_pc' = IF bytes_increment = 0 THEN "ended"
                                                            ELSE "reading"
                   /\ UNCHANGED <<progress_total, progress_shown>>
    /\ UNCHANGED <<serviceVars, update_status, offProgress>>

\* one of the spawned tasks gets the write lock of the status slot
ProgressTaskRun ==
    /\ \E value \in BagToSet(progress_tasks) :
         /\ progress_shown' = value
         /\ progress_tasks' = progress_tasks (-) SetToBag({value})
    /\ UNCHANGED <<progress_pc, progress_total, progress_bytes>>
    /\ UNCHANGED <<serviceVars, update_status, offProgress>>

(* --------------------- bus: start_status_monitor ---------------------- *)

\* a monitor that signals at every sample
EmitAlways(current, last, last_seen_progress) == TRUE

\* let should_emit = current_status.as_str() != last_status.as_str()
\*     || current_status.details() != last_status.details()
\*     || current_progress != last_progress
should_emit(current, last, last_seen_progress) ==
    \/ as_str(current) # as_str(last)
    \/ details(current) # details(last)
    \/ progress(current) # last_seen_progress

\* one turn of the monitor's loop, after the sleep: the slot is read and
\* update_status_changed is called when should_emit; last_status and
\* last_progress are assigned whether or not the call returned Err
MonitorSample ==
    /\ Len(signals) < MaxSignals
    /\ IF should_emit(update_status, last_status, last_progress)
       THEN /\ signals' = Append(signals, <<as_str(update_status),
                                            details(update_status),
                                            progress(update_status)>>)
            /\ last_status' = update_status
            /\ last_progress' = progress(update_status)
       ELSE UNCHANGED monitorVars
    /\ UNCHANGED <<serviceVars, offMonitor, update_status>>

\* ServiceInner::set_status, and the write of a status-update task: any
\* value is stored in the slot
SlotWrite(status) ==
    /\ update_status' = status
    /\ UNCHANGED <<serviceVars, componentVars>>

(* ----------------------------- specification -------------------------- *)

\* components that take no part in a specification stay as constructed
NoService ==
    /\ faulty = FALSE
    /\ auto_install_updates = TRUE
    /\ default_id = CHOOSE id \in InitialDeployments : TRUE
NoPoller == poller_pc = "none"
NoReader == stream = <<>>
NoVerifier ==
    /\ signature_len = KeySize
    /\ modpow_bytes = <<0>>
    /\ hash_bytes = [i \in 1..HashLen |-> 0]
NoBtrfs ==
    /\ subvol_ro = TRUE
    /\ is_subvolume = TRUE
    /\ btrfs_env = "works"

Next ==
    \/ \E src \in Sources : SendRequest(src)
    \/ LoopRecv
    \/ OpenSource
    \/ CheckResponse
    \/ EntriesEnd
    \/ EntryError
    \/ EntryOther
    \/ EntryChangelog
    \/ EntrySignature
    \/ EntryPayload
    \/ ProcessUpdateEntry
    \/ SetPending
    \/ SetAwaiting
    \/ WaitConfirmation
    \/ ClearPendingAccepted
    \/ ClearPendingRejected
    \/ PublishRejected
    \/ SetInstalling
    \/ StreamRead
    \/ StreamEof
    \/ StreamBroken
    \/ Join
    \/ Validate
    \/ Hook
    \/ SetDefault
    \/ SetClearing
    \/ ClearOldDeployments
    \/ SetCompleted
    \/ SetFailed
    \/ \E t \in BagToSet(tasks) : TaskRun(t)
    \/ \E c \in Clients : ConfirmCheckStatus(c)
    \/ \E c \in Clients : ConfirmCheckPending(c)
    \/ \E c \in Clients, accepted \in BOOLEAN : ConfirmSend(c, accepted)
    \/ PollerTick
    \/ PollerSend
    \/ PollerStop
    \/ TerminateNotify
    \/ TerminateDrop
    \/ TerminateJoin
    \/ MonitorSample
    \/ \E capacity \in 0..MaxCapacity : PollRead(capacity)
    \/ GetHash
    \/ ObserverRead
    \/ VerifySignature
    \/ SubvolumeSetRw
    \/ SubvolumeSetRo
    \/ SpawnXz
    \/ SpawnInput
    \/ SpawnBtrfs
    \/ \E t \in Stages : StageEnds(t)
    \/ JoinStages
    \/ ProgressNew
    \/ ProgressPollRead
    \/ ProgressTaskRun

Spec == Init /\ [][Next]_vars

(* the service with auto_install_updates = true, in a failing environment *)

InitInstall ==
    NoPoller /\ NoReader /\ NoVerifier /\ NoBtrfs /\ Init /\ auto_install_updates /\ faulty

NextInstall ==
    \/ \E src \in Sources : SendRequest(src)
    \/ LoopRecv
    \/ OpenSource
    \/ CheckResponse
    \/ EntriesEnd
    \/ EntryError
    \/ EntryOther
    \/ EntryChangelog
    \/ EntrySignature
    \/ EntryPayload
    \/ ProcessUpdateEntry
    \/ SetInstalling
    \/ StreamRead
    \/ StreamEof
    \/ StreamBroken
    \/ Join
    \/ Validate
    \/ Hook
    \/ SetDefault
    \/ SetClearing
    \/ ClearOldDeployments
    \/ SetCompleted
    \/ SetFailed
    \/ \E t \in BagToSet(tasks) : TaskRun(t)

SpecInstall == InitInstall /\ [][NextInstall]_vars

(* the service with auto_install_updates = false and its bus clients, in   *)
(* an environment that does not fail                                       *)

InitConfirm ==
    NoPoller /\ NoReader /\ NoVerifier /\ NoBtrfs /\ Init /\ ~auto_install_updates
    /\ ~faulty

NextConfirm ==
    \/ \E src \in Sources : SendRequest(src)
    \/ LoopRecv
    \/ OpenSource
    \/ CheckResponse
    \/ EntriesEnd
    \/ EntryOther
    \/ EntryChangelog
    \/ EntrySignature
    \/ EntryPayload
    \/ ProcessUpdateEntry
    \/ SetPending
    \/ SetAwaiting
    \/ WaitConfirmation
    \/ ClearPendingAccepted
    \/ ClearPendingRejected
    \/ PublishRejected
    \/ SetInstalling
    \/ StreamRead
    \/ StreamEof
    \/ Join
    \/ Validate
    \/ Hook
    \/ SetDefault
    \/ SetClearing
    \/ ClearOldDeployments
    \/ SetCompleted
    \/ \E t \in BagToSet(tasks) : TaskRun(t)
    \/ \E c \in Clients : ConfirmCheckStatus(c)
    \/ \E c \in Clients : ConfirmCheckPending(c)
    \/ \E c \in Clients, accepted \in BOOLEAN : ConfirmSend(c, accepted)

SpecConfirm == InitConfirm /\ [][NextConfirm]_vars

(* the service with auto_install_updates = false and one bus client, in a  *)
(* failing environment, under the scheduling the runtime gives: the loop   *)
(* task and every spawned task are polled when they can run, an archive    *)
(* has an end, and the client keeps calling confirm_update                 *)

InitLive ==
    NoPoller /\ NoReader /\ NoVerifier /\ NoBtrfs /\ Init /\ ~auto_install_updates
    /\ faulty

LiveClients == {"c1"}

\* the steps of the loop task outside the reading of entry headers
LoopProgress ==
    \/ LoopRecv
    \/ OpenSource
    \/ CheckResponse
    \/ ProcessUpdateEntry
    \/ SetPending
    \/ SetAwaiting
    \/ WaitConfirmation
    \/ ClearPendingAccepted
    \/ ClearPendingRejected
    \/ PublishRejected
    \/ SetInstalling
    \/ StreamRead
    \/ StreamEof
    \/ StreamBroken
    \/ Join
    \/ Validate
    \/ Hook
    \/ SetDefault
    \/ SetClearing
    \/ ClearOldDeployments
    \/ SetCompleted
    \/ SetFailed

\* entries.next() returns None or Err: the loop leaves the archive
ArchiveEnds == EntriesEnd \/ EntryError

TasksRun == \E t \in BagToSet(tasks) : TaskRun(t)

ClientCalls ==
    \E c \in LiveClients :
        \/ ConfirmCheckStatus(c)
        \/ ConfirmCheckPending(c)
        \/ \E accepted \in BOOLEAN : ConfirmSend(c, accepted)

NextLive ==
    \/ \E src \in Sources : SendRequest(src)
    \/ LoopProgress
    \/ ArchiveEnds
    \/ EntryOther
    \/ EntryChangelog
    \/ EntrySignature
    \/ EntryPayload
    \/ TasksRun
    \/ ClientCalls

SpecLive ==
    /\ InitLive
    /\ [][NextLive]_vars
    /\ WF_vars(LoopProgress)
    /\ SF_vars(ArchiveEnds)
    /\ WF_vars(TasksRun)
    /\ WF_vars(ClientCalls)

(* the service with auto_install_updates = true in an environment that    *)
(* does not fail, with the periodic poller and terminate_update_check      *)

InitLifecycle ==
    NoReader /\ NoVerifier /\ NoBtrfs /\ Init /\ auto_install_updates /\ ~faulty

NextLifecycle ==
    \/ \E src \in Sources : SendRequest(src)
    \/ LoopRecv
    \/ OpenSource
    \/ CheckResponse
    \/ EntriesEnd
    \/ EntryOther
    \/ EntryChangelog
    \/ EntrySignature
    \/ EntryPayload
    \/ ProcessUpdateEntry
    \/ SetInstalling
    \/ StreamRead
    \/ StreamEof
    \/ Join
    \/ Validate
    \/ Hook
    \/ SetDefault
    \/ SetClearing
    \/ ClearOldDeployments
    \/ SetCompleted
    \/ TasksRun
    \/ PollerTick
    \/ PollerSend
    \/ PollerStop
    \/ TerminateNotify
    \/ TerminateDrop
    \/ TerminateJoin

SpecLifecycle == InitLifecycle /\ [][NextLifecycle]_vars

(* the poller and terminate_update_check under the scheduling of the      *)
(* runtime: every task that can take a step takes one; the requests are    *)
(* the poller's                                                            *)

InitPoller == poller_pc = "select" /\ InitLifecycle

PollerRuns == PollerTick \/ PollerSend \/ PollerStop

TerminateRuns == TerminateDrop \/ TerminateJoin

NextPoller ==
    \/ LoopRecv
    \/ OpenSource
    \/ CheckResponse
    \/ EntriesEnd
    \/ EntryOther
    \/ EntryChangelog
    \/ EntrySignature
    \/ EntryPayload
    \/ ProcessUpdateEntry
    \/ SetInstalling
    \/ StreamRead
    \/ StreamEof
    \/ Join
    \/ Validate
    \/ Hook
    \/ SetDefault
    \/ SetClearing
    \/ ClearOldDeployments
    \/ SetCompleted
    \/ TasksRun
    \/ PollerRuns
    \/ TerminateNotify
    \/ TerminateRuns

SpecPoller ==
    /\ InitPoller
    /\ [][NextPoller]_vars
    /\ WF_vars(LoopProgress)
    /\ SF_vars(ArchiveEnds)
    /\ WF_vars(TasksRun)
    /\ WF_vars(PollerRuns)
    /\ WF_vars(TerminateRuns)

(* a HashingReader over every stream, polled with every buffer            *)

InitReader == NoService /\ NoPoller /\ NoVerifier /\ NoBtrfs /\ Init

NextReader ==
    \/ \E capacity \in 0..MaxCapacity : PollRead(capacity)
    \/ GetHash
    \/ ObserverRead

SpecReader == InitReader /\ [][NextReader]_vars

(* verify_signature on every decrypted block                              *)

InitVerifier == NoService /\ NoPoller /\ NoReader /\ NoBtrfs /\ Init

NextVerifier == VerifySignature

SpecVerifier == InitVerifier /\ [][NextVerifier]_vars

(* subvolume_set_rw and subvolume_set_ro called in succession             *)

InitBtrfs == NoService /\ NoPoller /\ NoReader /\ NoVerifier /\ Init

NextBtrfs ==
    \/ SubvolumeSetRw
    \/ SubvolumeSetRo

SpecBtrfs == InitBtrfs /\ [][NextBtrfs]_vars

(* receive_btrfs_stream with spawns and processes that may fail           *)

InitPipeline ==
    NoService /\ NoPoller /\ NoReader /\ NoVerifier /\ NoBtrfs /\ Init

NextPipeline ==
    \/ SpawnXz
    \/ SpawnInput
    \/ SpawnBtrfs
    \/ \E t \in Stages : StageEnds(t)
    \/ JoinStages

SpecPipeline == InitPipeline /\ [][NextPipeline]_vars

(* a ProgressReader over an entry of every size, its tasks run in any     *)
(* order                                                                  *)

InitProgress ==
    NoService /\ NoPoller /\ NoReader /\ NoVerifier /\ NoBtrfs /\ Init

NextProgress ==
    \/ ProgressNew
    \/ ProgressPollRead
    \/ ProgressTaskRun

SpecProgress == InitProgress /\ [][NextProgress]_vars

(* the status monitor beside a slot that any value is written to          *)

NextMonitor ==
    \/ \E status \in StatusValues : SlotWrite(status)
    \/ MonitorSample

InitMonitor == NoPoller /\ NoReader /\ NoVerifier /\ NoBtrfs /\ Init

SpecMonitor == InitMonitor /\ [][NextMonitor]_vars

(* -------------------------------- claims ------------------------------ *)

\* positions of the loop inside the install pipeline of one payload entry
PipelinePcs ==
    {"set_installing", "stream", "join", "validate", "hook", "set_default",
     "set_clearing", "gc", "set_completed", "set_failed"}

\* C1: subvolume_delete is never called on the deployment whose id is
\* boot_id, that deployment stays in deployments_dir, and boot_id and
\* boot_name keep the values Service::new captured.
C1_BootDeploymentKept ==
    /\ [](boot_id \notin delete_calls /\ boot_id \in deployments)
    /\ [][boot_id' = boot_id /\ boot_name' = boot_name]_vars

\* C1: a garbage-collection pass has called subvolume_delete after the
\* default subvolume moved away from the boot deployment.
C1_Witness ==
    /\ pc = "set_completed"
    /\ default_id # boot_id
    /\ delete_calls # {}

C3_PipelineOnlyAfterAcceptance ==
    [][~auto_install_updates =>
        /\ (pc' = "set_installing" /\ pc # "set_installing")
           => (pc = "accepted" /\ inst.confirmed)
        /\ (pc' = "accepted" /\ pc # "accepted")
           => /\ pc = "wait_confirmation"
              /\ confirmation_ch # <<>>
              /\ Head(confirmation_ch) = TRUE
              /\ confirmation_ch' = Tail(confirmation_ch)
        /\ (pc' = "wait_confirmation" /\ pc # "wait_confirmation")
           => /\ IsSome(pending_update')
              /\ update_status' = AwaitingConfirmation(version, source_desc)
        /\ (pc = "wait_confirmation" /\ pc' = "wait_confirmation")
           => /\ inst' = inst
              /\ inst.bytes_read = 0
              /\ inst.subvol = 0
              /\ deployments' = deployments
              /\ next_id' = next_id]_vars

\* C3: the payload is being streamed after the user accepted the update.
C3_Witness ==
    /\ ~auto_install_updates
    /\ pc = "stream"
    /\ inst.confirmed

\* C4: when the loop is about to publish AwaitingConfirmation for an update,
\* the confirmation channel holds no decision.
C4_NoLeftoverDecision ==
    pc = "set_awaiting" => confirmation_ch = <<>>

\* C5: pending_update is present exactly when the status is
\* AwaitingConfirmation.
C5_PendingIffAwaiting ==
    IsSome(pending_update) <=> update_status.kind = "AwaitingConfirmation"

\* C6: a confirm_update call that reads a status other than
\* AwaitingConfirmation, or an empty pending_update, returns an error, and
\* that step sends nothing and leaves status and pending_update as they are.
C6_RefusedConfirmHasNoEffect ==
    [][\A c \in Clients :
        (\/ ConfirmCheckStatus(c) /\ update_status.kind # "AwaitingConfirmation"
         \/ ConfirmCheckPending(c) /\ pending_update = None)
        => /\ confirm_result' = Some("Err")
           /\ clients'[c] = "idle"
           /\ confirmation_ch' = confirmation_ch
           /\ update_status' = update_status
           /\ pending_update' = pending_update]_vars

\* C6: a call made while nothing was pending returned an error.
C6_Witness ==
    /\ confirm_result = Some("Err")
    /\ update_status = Idle
    /\ pending_update = None
    /\ confirmation_ch = <<>>

\* C7: a reject decision takes the loop to the rejected branch, which clears
\* pending_update, then publishes Failed "Update rejected by user" and ends
\* the request, leaving the loop at the receive of the next request; on
\* that branch nothing is read, received or made the default.
C7_RejectFailsWithoutInstall ==
    [][/\ (pc = "wait_confirmation" /\ pc' # pc /\ Head(confirmation_ch) = FALSE)
          => pc' = "rejected"
       /\ (pc = "rejected" /\ pc' # pc)
          => (pending_update' = None /\ pc' = "publish_rejected")
       /\ (pc = "publish_rejected" /\ pc' # pc)
          => /\ update_status' = Failed(source_desc, "Update rejected by user")
             /\ pending_update' = None
             /\ pc' = "recv"
             /\ request' = None
             /\ processed' = processed + 1
       /\ (pc \in {"rejected", "publish_rejected"})
          => /\ inst.bytes_read = 0
             /\ inst.subvol = 0
             /\ deployments' = deployments
             /\ default_id' = default_id
             /\ next_id' = next_id]_vars

\* C7: the loop is back at the receive with the rejection published while
\* another request waits in the channel.
C7_Witness ==
    /\ pc = "recv"
    /\ update_status.kind = "Failed"
    /\ update_status.info = "Update rejected by user"
    /\ pending_update = None
    /\ update_ch # <<>>
    /\ deployments = InitialDeployments

\* C8: the request the loop processes is the oldest one not yet finished,
\* the channel holds the later ones in the order they were sent, and the
\* loop holds a request exactly when it is not at the receive.
C8_FifoOneAtATime ==
    /\ IsSome(request) => Unwrap(request).id = processed + 1
    /\ \A i \in 1..Len(update_ch) :
         update_ch[i].id = processed + Len(request) + i
    /\ (pc = "recv") <=> (request = None)

\* C8: the second request is processed after the first has finished.
C8_Witness ==
    /\ processed = 1
    /\ IsSome(request)
    /\ Unwrap(request).id = 2

\* C9: while the loop processes a request, a status Installing names the
\* source of that request.
C9_InstallingNamesCurrentSource ==
    (IsSome(request) /\ update_status.kind = "Installing")
    => update_status.source = source_desc

\* C10: a status Clearing, Completed or Failed is replaced only by a step
\* of the loop, never by a status-update task of ProgressReader.
C10_PublishedStatusStays ==
    [][(update_status.kind \in {"Clearing", "Completed", "Failed"}
        /\ update_status' # update_status)
       => tasks' = tasks]_vars

\* C11: when a pass of clear_old_deployments after a successful install has
\* listed the deployments and no subvolume_delete it called has failed, the
\* deployments left are exactly the boot deployment and the new default.
C11_GcLeavesBootAndDefault ==
    (/\ pc = "set_completed"
     /\ inst.gc.result # "query failed"
     /\ inst.gc.failed = {})
    => deployments = {boot_id, default_id}

\* C12: when install_update is about to report that signature verification
\* failed, subvolume_delete has been called on the subvolume just received
\* and that subvolume is no longer among the deployments.
C12_VerifyFailureDeletesSubvolume ==
    (pc = "set_failed" /\ inst.error = "Invalid signature")
    => (inst.subvol \in delete_calls /\ inst.subvol \notin deployments)

\* C13: when the loop leaves a request with the status Failed, the default
\* subvolume id is the one it was when the loop received the request.
C13_FailedLeavesDefault ==
    [][(/\ IsSome(request)
        /\ request' = None
        /\ update_status'.kind = "Failed")
       => default_id' = Unwrap(request).default_at_recv]_vars

\* C14: a step that publishes Completed{source, deployment} names the
\* deployment whose id is the default subvolume id at that moment, an id the
\* default did not have when the request was received; the pass of
\* clear_old_deployments before it leaves the default as it is.
C14_CompletedNamesDefault ==
    [][/\ (update_status' # update_status /\ update_status'.kind = "Completed")
          => /\ update_status'.info = NameOf(default_id')
             /\ default_id' = default_id
             /\ default_id # Unwrap(request).default_at_recv
       /\ (pc = "gc") => default_id' = default_id]_vars

\* C14: Completed is shown after a pass that deleted a deployment, and the
\* default is the deployment it names.
C14_Witness ==
    /\ update_status.kind = "Completed"
    /\ update_status.info = NameOf(default_id)
    /\ default_id # boot_id
    /\ delete_calls # {}

C16_NoUpdateGoesIdle ==
    /\ [](pc = "response" =>
            /\ Unwrap(request).source.kind = "Url"
            /\ update_status.kind # "Failed")
    /\ [][(pc = "response" /\ ~(inst.http_status \in 200..299) /\ pc' # pc)
          => /\ update_status' = Idle
             /\ pc' = "recv"
             /\ request' = None
             /\ processed' = processed + 1
             /\ UNCHANGED <<pending_update, tasks, fsVars>>]_vars

\* C16: the first request has ended in Idle and nothing was installed.
C16_Witness ==
    /\ update_status = Idle
    /\ pc = "recv"
    /\ processed = 1
    /\ next_id = FirstFreshId
    /\ default_id = boot_id

\* C17: when process_update_entry is called for update.btrfs.xz while
\* CHANGELOG or update.signature has not been read, the step that ends the
\* request publishes Failed.
C17_PayloadFirstFails ==
    [][(/\ pc = "payload"
        /\ ~IsSome(changelog_content) \/ ~IsSome(signature_content)
        /\ pc' # pc)
       => update_status'.kind = "Failed"]_vars

\* C18: the step with which the loop leaves a request leaves the status at
\* Idle, Completed or Failed.
C18_RequestEndsTerminal ==
    [][(IsSome(request) /\ request' = None)
       => update_status'.kind \in {"Idle", "Completed", "Failed"}]_vars

\* C19: every request sent into the request channel is eventually finished
\* by the loop.
C19_EveryRequestProcessed ==
    \A n \in 1..MaxRequests : (sent >= n) ~> (processed >= n)

\* C20: when the install script the manifest names is absent or not
\* executable, install_update goes on as without a script: the received
\* subvolume is kept, with no subvolume_delete called on it, and no error is
\* returned.
C20_UnusableHookIsNoHook ==
    (inst.hook = "not executable")
    => /\ pc \in {"set_default", "set_clearing", "gc", "set_completed"}
       /\ inst.error = ""
       /\ inst.subvol \in deployments
       /\ inst.subvol \notin delete_calls

C22_GcErrorsSwallowed ==
    /\ [](pc \in {"set_clearing", "gc", "set_completed"} =>
            inst.error = "" /\ default_id = inst.subvol)
    /\ [][/\ (pc = "set_clearing" /\ pc' # pc)
              => (update_status' = Clearing /\ pc' = "gc")
          /\ (pc = "gc" /\ pc' # pc)
              => (pc' = "set_completed" /\ inst'.error = "")
          /\ (pc = "set_completed" /\ pc' # pc)
              => update_status' = Completed(source_desc, NameOf(inst.subvol))]_vars

\* C22: the pass returned the error of the default-subvolume query or of the
\* listing, deleted nothing, and the loop is about to publish Completed.
C22_Witness ==
    /\ pc = "set_completed"
    /\ inst.gc.result = "query failed"
    /\ inst.error = ""
    /\ delete_calls = {}

\* C23: after a pass of clear_old_deployments that has listed the
\* deployments, every deployment still there that is neither the boot
\* deployment nor the default, other than one whose uninstall hook could not
\* be started, is one on which subvolume_delete was called and failed.
C23_GcPassGoesOn ==
    (pc = "set_completed" /\ inst.gc.result # "query failed")
    => \A d \in deployments \ {boot_id, default_id, inst.gc.stopped_at} :
          d \in inst.gc.failed

C25_TerminateClosesChannel ==
    (term_pc \in {"join_checker", "join_loop", "returned"}) => senders = 0

\* C26: when the poller has set update_done, so that it enqueues no further
\* request, and the loop has finished every request sent, an update has been
\* installed: the default subvolume is no longer the boot deployment.
C26_PollerStopsAfterInstall ==
    (update_done /\ update_ch = <<>> /\ pc = "recv" /\ processed = sent)
    => default_id # boot_id

\* C27: the poll_read that returns EOF for the first time, in a run without
\* a read error and with the slot free, leaves in the slot the SHA-512 of the
\* bytes delivered downstream, and these are the bytes of the source.
C27_DigestOfDeliveredBytes ==
    [][(~eof_seen /\ eof_seen' /\ ~error_seen' /\ ~lock_held)
       => (hash_result' = Some(HexSha512(delivered')) /\ delivered' = stream)]_vars

\* C28: the slot reads None as long as the wrapped source has returned
\* neither EOF nor an error.
C28_NoDigestBeforeEof ==
    (~eof_seen /\ ~error_seen) => hash_result = None

\* C29: once the source has returned EOF and the slot holds a digest, the
\* value of the slot never changes, whatever is called afterwards.
C29_SlotWriteOnce ==
    [][(eof_seen /\ hash_result # None) => hash_result' = hash_result]_vars

\* the PKCS#1 v1.5 block for a digest: 00 01, `padding` bytes FF, 00, the
\* DigestInfo, the digest
Pkcs1Block(padding, hash) ==
    <<0, 1>> \o [i \in 1..padding |-> 255] \o <<0>> \o sha512_digest_info \o hash

\* C30: a signature verify_signature accepts decrypts to the PKCS#1 v1.5 block
\* of the supplied digest, with at least MinPadding bytes FF and the digest
\* as the last bytes of the block.
C30_AcceptedBlockIsPkcs1 ==
    verify_result = "Ok"
    => \E padding \in MinPadding..KeySize :
          full_padded(modpow_bytes, KeySize) = Pkcs1Block(padding, hash_bytes)

\* C31: a call of subvolume_set_rw or subvolume_set_ro that follows a call of
\* the same function leaves the property as the first call left it and
\* returns what the first call returned; a call that finds the property in
\* the requested state issues no property-set command; a call that returns Ok
\* after a property-set command has re-read the property in the requested
\* state.
C31_SetIsIdempotent ==
    /\ \A i \in 1..(Len(calls) - 1) :
          calls[i + 1].want_ro = calls[i].want_ro
          => /\ calls[i + 1].after = calls[i].after
             /\ calls[i + 1].result = calls[i].result
    /\ \A i \in 1..Len(calls) :
          /\ calls[i].before = calls[i].want_ro => calls[i].set_commands = 0
          /\ (calls[i].result = "Ok" /\ calls[i].set_commands > 0)
             => (calls[i].reread = PropertyGet(calls[i].want_ro)
                 /\ calls[i].after = calls[i].want_ro)

C31_Witness ==
    /\ Len(calls) = 2
    /\ calls[1].want_ro = FALSE /\ calls[2].want_ro = FALSE
    /\ calls[1].before = TRUE /\ calls[1].set_commands = 1
    /\ calls[1].result = "Ok" /\ calls[2].result = "Ok"
    /\ calls[2].set_commands = 0
    /\ subvol_ro = FALSE

\* the edges of the status state machine, as pairs of status kinds
StatusEdges ==
    { <<"Idle", "Checking">>, <<"Checking", "Installing">>,
      <<"Installing", "Installing">>, <<"Installing", "AwaitingConfirmation">>,
      <<"AwaitingConfirmation", "Failed">>,
      <<"AwaitingConfirmation", "Installing">>, <<"Installing", "Clearing">>,
      <<"Clearing", "Completed">>, <<"Installing", "Failed">>,
      <<"Failed", "Checking">>, <<"Completed", "Checking">>,
      <<"Checking", "Idle">> }

\* C32: every change of the status slot follows an edge of the state machine,
\* and Checking is left for Installing with progress 0 only.
C32_StatusFollowsEdges ==
    [][update_status' # update_status
       => /\ <<update_status.kind, update_status'.kind>> \in StatusEdges
          /\ (update_status.kind = "Checking" /\ update_status'.kind = "Installing")
             => update_status'.progress = 0]_vars

\* C33: when process_update_entry is called for update.btrfs.xz while CHANGELOG
\* or update.signature has not been read, the step the loop takes ends the
\* request: the loop is back at recv, nothing is streamed, no subvolume is created,
\* pending_update is not set and the default subvolume is unchanged.
C33_PayloadFirstStartsNothing ==
    [][(/\ pc = "payload"
        /\ ~IsSome(changelog_content) \/ ~IsSome(signature_content)
        /\ pc' # pc)
       => /\ pc' = "recv"
          /\ UNCHANGED <<pending_update, deployments, default_id, next_id,
                         tasks>>]_vars

C33_Witness ==
    /\ pc = "payload"
    /\ IsSome(signature_content)
    /\ ~IsSome(changelog_content)
    /\ inst.size > 0

\* C37: process_update_entry is called for an update.btrfs.xz entry only while
\* the request has published neither Completed nor Failed: after the install
\* of one entry has ended, no later entry of the same archive is installed.
C37_OneInstallPerRequest ==
    [][(pc = "entries" /\ update_status.kind \in {"Completed", "Failed"})
       => pc' # "payload"]_vars

\* C34: when receive_btrfs_stream has returned, nothing it spawned is still
\* running.
C34_NothingRunsAfterReturn ==
    rx_pc = "returned" => \A t \in Stages : stage[t] # "running"

\* C35: once terminate_update_check has called notify_waiters, the poller
\* task eventually ends.
C35_PollerEventuallyStops ==
    (term_pc # "idle") ~> (poller_pc = "stopped")

\* C36: a request in which the source returned a read error inside
\* update.btrfs.xz ends with Failed published and with the default subvolume
\* it started with.
C36_ReadErrorEndsFailed ==
    [][(/\ IsSome(request)
        /\ Unwrap(request).read_error
        /\ pc' = "recv")
       => /\ update_status'.kind = "Failed"
          /\ default_id' = Unwrap(request).default_at_recv]_vars

\* C38: the poll_read that returns EOF leaves a digest in the slot, also
\* when a read guard of the slot is held during the call.
C38_DigestPublishedUnderLease ==
    [][(~eof_seen /\ eof_seen' /\ lock_held) => hash_result' # None]_vars

\* C39: while one entry of known, non-zero size is installed, the progress
\* of the Installing in the status slot never goes down.
C39_ProgressNeverDecreases ==
    [][progress_total > 0 => progress_shown' >= progress_shown]_vars

\* C40: when a request ends with Failed published, every deployment that
\* existed when the request was received still exists.
C40_FailedRequestDeletesNothingOld ==
    [][(/\ IsSome(request)
        /\ pc' = "recv"
        /\ update_status'.kind = "Failed")
       => Unwrap(request).deployments_at_recv \subseteq deployments']_vars

====
